---- MODULE Spec2Model ----
(***************************************************************************)
(* Sets.validate of pkmn-archive/datax (src/src/sets.ts): the validation   *)
(* of a PokemonSet against a Format, as a state machine that walks the     *)
(* checks of validate in program order and accumulates the problem list.   *)
(*                                                                         *)
(* A problem string is modelled by the record                              *)
(*   [kind |-> which message, subject |-> the first name interpolated in   *)
(*    it, at |-> the position in set.moves the loop was at (0 outside)].   *)
(* An undefined / empty string of the program is "", an undefined number   *)
(* is 0, an undefined lookup result is the record whose id (name) is "".   *)
(***************************************************************************)
EXTENDS Integers, Sequences, FiniteSets, TLC

VARIABLES format, set, pc, i, moveTable, problems

vars == <<format, set, pc, i, moveTable, problems>>

\* Longest move list drawn over a small alphabet of move names.
MaxMoves == 5
\* Longest move list drawn over a wide alphabet of move names.
MaxCombo == 3

(***************************************************************************)
(* Data providers (pkmn.Moves, pkmn.Items, pkmn.Natures, pkmn.Abilities,   *)
(* Species, Rules): read-only tables.                                      *)
(***************************************************************************)

\* pkmn.toID: lower-cases a name and drops everything but letters and digits.
toID(s) ==
  CASE s = "Tackle" -> "tackle"
    [] s = "Baton Pass" -> "batonpass"
    [] s = "Agility" -> "agility"
    [] s = "Swords Dance" -> "swordsdance"
    [] s = "Recycle" -> "recycle"
    [] s = "Celebrate" -> "celebrate"
    [] s = "Splash" -> "splash"
    [] s = "Hypnosis" -> "hypnosis"
    [] s = "Flame Charge" -> "flamecharge"
    [] s = "Belly Drum" -> "bellydrum"
    [] s = "Spore" -> "spore"
    [] s = "Sing" -> "sing"
    [] s = "Lovely Kiss" -> "lovelykiss"
    [] s = "Sleep Powder" -> "sleeppowder"
    [] s = "Mean Look" -> "meanlook"
    [] s = "Spider Web" -> "spiderweb"
    [] s = "Fissure" -> "fissure"
    [] s = "Minimize" -> "minimize"
    [] s = "Double Team" -> "doubleteam"
    [] s = "Swagger" -> "swagger"
    [] s = "Foo" -> "foo"
    [] s = "Normalium Z" -> "normaliumz"
    [] s = "Psychium Z" -> "psychiumz"
    [] s = "Eevium Z" -> "eeviumz"
    [] s = "Salac Berry" -> "salacberry"
    [] s = "Liechi Berry" -> "liechiberry"
    [] s = "Leftovers" -> "leftovers"
    [] s = "Griseous Orb" -> "griseousorb"
    [] s = "Static" -> "static"
    [] s = "Moody" -> "moody"
    [] s = "Sand Veil" -> "sandveil"
    [] s = "Snow Cloak" -> "snowcloak"
    [] s = "Speed Boost" -> "speedboost"
    [] s = "Moxie" -> "moxie"
    [] s = "Jolly" -> "jolly"
    [] s = "Adamant" -> "adamant"
    [] OTHER -> s

NoBoosts == [atk |-> 0, def |-> 0, spa |-> 0, spd |-> 0, spe |-> 0]

AllBoosts == [atk |-> 1, def |-> 1, spa |-> 1, spd |-> 1, spe |-> 1]

Move(id, name, type, gen, ohko, boosts, zMoveBoosts) ==
  [id |-> id, name |-> name, type |-> type, gen |-> gen, ohko |-> ohko,
   boosts |-> boosts, zMoveBoosts |-> zMoveBoosts]

NoMove == Move("", "", "", 0, FALSE, NoBoosts, NoBoosts)

\* The move table of pkmn.Moves: the moves the model draws from.
MoveData ==
  { Move("tackle", "Tackle", "Normal", 1, FALSE, NoBoosts, NoBoosts),
    Move("batonpass", "Baton Pass", "Normal", 2, FALSE, NoBoosts, NoBoosts),
    Move("agility", "Agility", "Psychic", 1, FALSE,
         [NoBoosts EXCEPT !.spe = 2], NoBoosts),
    Move("swordsdance", "Swords Dance", "Normal", 1, FALSE,
         [NoBoosts EXCEPT !.atk = 2], NoBoosts),
    Move("recycle", "Recycle", "Normal", 3, FALSE, NoBoosts,
         [NoBoosts EXCEPT !.spe = 2]),
    Move("celebrate", "Celebrate", "Normal", 6, FALSE, NoBoosts, AllBoosts),
    Move("splash", "Splash", "Normal", 1, FALSE, NoBoosts,
         [NoBoosts EXCEPT !.atk = 3]),
    Move("hypnosis", "Hypnosis", "Psychic", 1, FALSE, NoBoosts,
         [NoBoosts EXCEPT !.spe = 1]),
    Move("flamecharge", "Flame Charge", "Fire", 5, FALSE, NoBoosts, NoBoosts),
    Move("bellydrum", "Belly Drum", "Normal", 2, FALSE, NoBoosts, NoBoosts),
    Move("spore", "Spore", "Grass", 1, FALSE, NoBoosts, NoBoosts),
    Move("sing", "Sing", "Normal", 1, FALSE, NoBoosts,
         [NoBoosts EXCEPT !.spe = 1]),
    Move("lovelykiss", "Lovely Kiss", "Normal", 1, FALSE, NoBoosts,
         [NoBoosts EXCEPT !.spe = 1]),
    Move("sleeppowder", "Sleep Powder", "Grass", 1, FALSE, NoBoosts,
         [NoBoosts EXCEPT !.spe = 1]),
    Move("meanlook", "Mean Look", "Normal", 2, FALSE, NoBoosts,
         [NoBoosts EXCEPT !.spd = 1]),
    Move("spiderweb", "Spider Web", "Bug", 2, FALSE, NoBoosts,
         [NoBoosts EXCEPT !.def = 1]),
    Move("fissure", "Fissure", "Ground", 1, TRUE, NoBoosts, NoBoosts),
    Move("minimize", "Minimize", "Normal", 1, FALSE, NoBoosts, NoBoosts),
    Move("doubleteam", "Double Team", "Normal", 1, FALSE, NoBoosts, NoBoosts),
    Move("swagger", "Swagger", "Normal", 2, FALSE,
         [NoBoosts EXCEPT !.atk = 2], NoBoosts) }

\* pkmn.Moves.get(m, gen): the move whose id is toID(m), if it exists in gen.
MovesGet(m, gen) ==
  LET hit == {mv \in MoveData : mv.id = toID(m) /\ mv.gen <= gen}
  IN  IF hit = {} THEN NoMove ELSE CHOOSE mv \in hit : TRUE

\* The move stored under key id in a move table.
MoveById(id) == CHOOSE mv \in MoveData : mv.id = id

Item(id, name, gen, zMove, zMoveType) ==
  [id |-> id, name |-> name, gen |-> gen, zMove |-> zMove,
   zMoveType |-> zMoveType]

NoItem == Item("", "", 0, FALSE, "")

\* The item table of pkmn.Items.  Eevium Z is a species Z-crystal: it has a
\* zMove and no zMoveType.
ItemData ==
  { Item("normaliumz", "Normalium Z", 7, TRUE, "Normal"),
    Item("psychiumz", "Psychium Z", 7, TRUE, "Psychic"),
    Item("eeviumz", "Eevium Z", 7, TRUE, ""),
    Item("salacberry", "Salac Berry", 3, FALSE, ""),
    Item("liechiberry", "Liechi Berry", 3, FALSE, ""),
    Item("leftovers", "Leftovers", 2, FALSE, ""),
    Item("griseousorb", "Griseous Orb", 4, FALSE, "") }

\* pkmn.Items.get(name, gen).
ItemsGet(name, gen) ==
  LET hit == {it \in ItemData : it.id = toID(name) /\ it.gen <= gen}
  IN  IF hit = {} THEN NoItem ELSE CHOOSE it \in hit : TRUE

Ability(id, name, gen) == [id |-> id, name |-> name, gen |-> gen]

NoAbility == Ability("", "", 0)

\* The ability table of pkmn.Abilities.
AbilityData ==
  { Ability("static", "Static", 3), Ability("moody", "Moody", 5),
    Ability("sandveil", "Sand Veil", 3), Ability("snowcloak", "Snow Cloak", 4),
    Ability("speedboost", "Speed Boost", 3), Ability("moxie", "Moxie", 5) }

\* pkmn.Abilities.get(name, gen).
AbilitiesGet(name, gen) ==
  LET hit == {ab \in AbilityData : ab.id = toID(name) /\ ab.gen <= gen}
  IN  IF hit = {} THEN NoAbility ELSE CHOOSE ab \in hit : TRUE

\* pkmn.Natures.get(name): the nature's name, "" when there is none.
NaturesGet(name) ==
  IF toID(name) = "jolly" THEN "Jolly"
  ELSE IF toID(name) = "adamant" THEN "Adamant" ELSE ""

\* pkmn.Stats.itod: the DV of an IV.
itod(iv) == iv \div 2

\* pkmn.Stats.getHPDV: the HP DV the other DVs give.
getHPDV(ivs) ==
  (itod(ivs.atk) % 2) * 8 + (itod(ivs.def) % 2) * 4 +
  (itod(ivs.spe) % 2) * 2 + (itod(ivs.spa) % 2)

Stats == {"hp", "atk", "def", "spa", "spd", "spe"}

Sp(name, baseSpecies, num, gen, tier, gender, ratioF, prevo, evos, egg) ==
  [name |-> name, baseSpecies |-> baseSpecies, num |-> num, gen |-> gen,
   tier |-> tier, gender |-> gender, genderRatio |-> [F |-> ratioF],
   prevo |-> prevo, evos |-> evos, eggGroups |-> <<egg>>]

NoSpecies == Sp("", "", 0, 0, "", "", <<0, 1>>, "", <<>>, "")

\* The species table.  genderRatio.F is the fraction <<numerator, denominator>>.
SpeciesData ==
  { Sp("Pikachu", "Pikachu", 25, 1, "Normal", "", <<1, 2>>, "Pichu",
       <<"Raichu">>, "Field"),
    Sp("Pichu", "Pichu", 172, 2, "Normal", "", <<1, 2>>, "",
       <<"Pikachu">>, "Undiscovered"),
    Sp("Pikachu-Rock-Star", "Pikachu", 25, 6, "Normal", "F", <<1, 1>>, "",
       <<>>, "Undiscovered"),
    Sp("Mewtwo", "Mewtwo", 150, 1, "Normal", "N", <<0, 1>>, "", <<>>,
       "Undiscovered"),
    Sp("Nidoran-M", "Nidoran-M", 32, 1, "Normal", "M", <<0, 1>>, "",
       <<"Nidorino">>, "Monster"),
    Sp("Chansey", "Chansey", 113, 1, "Normal", "F", <<1, 1>>, "",
       <<"Blissey">>, "Fairy"),
    Sp("Tauros", "Tauros", 128, 1, "Normal", "M", <<0, 1>>, "", <<>>,
       "Field"),
    Sp("Eevee", "Eevee", 133, 1, "Normal", "", <<1, 8>>, "",
       <<"Vaporeon", "Jolteon", "Flareon">>, "Field"),
    Sp("Growlithe", "Growlithe", 58, 1, "Normal", "", <<1, 4>>, "",
       <<"Arcanine">>, "Field"),
    Sp("Vulpix", "Vulpix", 37, 1, "Normal", "", <<3, 4>>, "",
       <<"Ninetales">>, "Field"),
    Sp("Unown", "Unown", 201, 2, "Normal", "N", <<0, 1>>, "", <<>>,
       "Undiscovered"),
    Sp("Manaphy", "Manaphy", 490, 4, "Normal", "N", <<0, 1>>, "", <<>>,
       "Water 1"),
    Sp("Giratina", "Giratina", 487, 4, "Normal", "N", <<0, 1>>, "", <<>>,
       "Undiscovered"),
    Sp("Diancie", "Diancie", 719, 6, "Normal", "N", <<0, 1>>, "", <<>>,
       "Undiscovered"),
    Sp("Pichu-Spiky-eared", "Pichu", 172, 4, "Illegal", "F", <<1, 1>>, "",
       <<>>, "Undiscovered"),
    Sp("Floette-Eternal", "Floette", 670, 6, "Unreleased", "F", <<1, 1>>, "",
       <<>>, "Undiscovered") }

\* Species.get(s, gen): the species of that name, if it exists in gen.
SpeciesGet(s, gen) ==
  LET hit == {sp \in SpeciesData : sp.name = s /\ sp.gen <= gen}
  IN  IF hit = {} THEN NoSpecies ELSE CHOOSE sp \in hit : TRUE

\* Species.nfe(s): s.evos && s.evos.length.
nfe(s) == Len(s.evos) > 0

AllClauses ==
  {"OHKO", "Evasion Moves", "Swagger", "Baton Pass", "Evasion Abilities",
   "Moody"}

NoRules == [id |-> "", clauses |-> {}, littleCup |-> FALSE]

\* Rules.get(format): the ruleset of the format's tier.
RulesGet(f) ==
  CASE f.tier = "ou" -> [id |-> "ou", clauses |-> AllClauses,
                         littleCup |-> FALSE]
    [] f.tier = "lc" -> [id |-> "lc", clauses |-> AllClauses,
                         littleCup |-> TRUE]
    [] f.tier = "ag" -> [id |-> "ag", clauses |-> {}, littleCup |-> FALSE]
    [] OTHER -> NoRules

\* Rules.isLittleCup(rules).
isLittleCup(r) == r.littleCup


(***************************************************************************)
(* The special-case rule checks.                                           *)
(***************************************************************************)

\* isLegendary without the exemption of a shiny Diancie.
isLegendaryNoShiny(s, shiny) ==
  /\ (s.eggGroups[1] = "Undiscovered" \/ s.name = "Manaphy")
  /\ s.prevo = ""
  /\ ~nfe(s)
  /\ s.name # "Unown"
  /\ s.baseSpecies # "Pikachu"

\* isLegendary(s, shiny).
isLegendary(s, shiny) ==
  /\ (s.eggGroups[1] = "Undiscovered" \/ s.name = "Manaphy")
  /\ s.prevo = ""
  /\ ~nfe(s)
  /\ s.name # "Unown"
  /\ s.baseSpecies # "Pikachu"
  /\ (s.baseSpecies # "Diancie" \/ ~shiny)

SLEEP_MOVES == {"hypnosis", "lovelykiss", "sing", "sleeppowder", "spore"}

TRAP_MOVES == {"meanlook", "spiderweb"}

\* checkSleepTrap returning sleep || trap.
checkSleepTrapEither(moves) ==
  \/ \E k \in 1..Len(moves) : MoveById(moves[k]).id \in SLEEP_MOVES
  \/ \E k \in 1..Len(moves) : MoveById(moves[k]).id \in TRAP_MOVES

\* checkSleepTrap(moves): moves is the move table, its keys in insertion order.
checkSleepTrap(moves) ==
  LET sleep == \E k \in 1..Len(moves) : MoveById(moves[k]).id \in SLEEP_MOVES
      trap == \E k \in 1..Len(moves) :
                /\ MoveById(moves[k]).id \notin SLEEP_MOVES
                /\ MoveById(moves[k]).id \in TRAP_MOVES
  IN  sleep /\ trap

SPEED_BOOST_ABILITIES ==
  {"motordrive", "rattled", "speedboost", "steadfast", "weakarmor"}

SPEED_BOOST_ITEMS == {"blazikenite", "eeviumz", "kommoniumz", "salacberry"}

NON_SPEED_BOOST_ABILITIES ==
  {"angerpoint", "competitive", "defiant", "download", "justified",
   "lightningrod", "moxie", "sapsipper", "stormdrain"}

NON_SPEED_BOOST_ITEMS ==
  {"absorbbulb", "apicotberry", "cellbattery", "eeviumz", "ganlonberry",
   "keeberry", "kommoniumz", "liechiberry", "luminousmoss", "marangaberry",
   "petayaberry", "snowball", "starfberry", "weaknesspolicy"}

NON_SPEED_BOOST_MOVES ==
  {"acupressure", "bellydrum", "chargebeam", "curse", "diamondstorm",
   "fellstinger", "fierydance", "flowershield", "poweruppunch", "rage",
   "rototiller", "skullbash", "stockpile"}

\* The values of speedBoosted / nonSpeedBoosted (string|boolean): false, true
\* or a move's name.
BFalse == [t |-> "false", s |-> ""]

BTrue == [t |-> "true", s |-> ""]

BStr(name) == [t |-> "string", s |-> name]

\* A move boosts a stat other than Speed (boosts or zMoveBoosts).
nonSpeedBoost(b) == b.atk > 0 \/ b.def > 0 \/ b.spa > 0 \/ b.spd > 0

\* One iteration of checkBatonPass's loop, on move, from <<speedBoosted,
\* nonSpeedBoosted>>.
BatonStep(move, item, sb, nsb) ==
  LET sb1 == IF move.id = "flamecharge" \/ move.boosts.spe > 0
             THEN BTrue ELSE sb
      nsb1 == IF move.id \in NON_SPEED_BOOST_MOVES \/ nonSpeedBoost(move.boosts)
              THEN BTrue ELSE nsb
      z == item.id # "" /\ item.zMove /\ move.type = item.zMoveType
      sb2 == IF z /\ move.zMoveBoosts.spe > 0 /\ sb1 = BFalse
             THEN BStr(move.name) ELSE sb1
      nsb2 == IF /\ z
                 /\ nonSpeedBoost(move.zMoveBoosts)
                 /\ (nsb1 = BFalse \/ BStr(move.name) = sb2)
              THEN BStr(move.name) ELSE nsb1
  IN  <<sb2, nsb2>>

RECURSIVE BatonLoop(_, _, _, _)
\* The loop `for (const id in moves)` from key k on, in insertion order.
BatonLoop(moves, k, item, st) ==
  IF k > Len(moves) THEN st
  ELSE BatonLoop(moves, k + 1, item,
                 BatonStep(MoveById(moves[k]), item, st[1], st[2]))

\* checkBatonPass(set, format, moves).
checkBatonPass(s, f, moves) ==
  LET item == ItemsGet(s.item, f.gen)
      ability == toID(s.ability)
      st == BatonLoop(moves, 1, item, <<BFalse, BFalse>>)
      speedBoosted ==
        IF ability \in SPEED_BOOST_ABILITIES \/
           (item.id # "" /\ item.id \in SPEED_BOOST_ITEMS)
        THEN BTrue ELSE st[1]
      nonSpeedBoosted ==
        IF ability \in NON_SPEED_BOOST_ABILITIES \/
           (item.id # "" /\ item.id \in NON_SPEED_BOOST_ITEMS)
        THEN BTrue ELSE st[2]
  IN  IF speedBoosted = BFalse THEN FALSE
      ELSE IF nonSpeedBoosted = BFalse THEN FALSE
      ELSE ~(/\ speedBoosted # nonSpeedBoosted
             /\ speedBoosted.t = "string"
             /\ nonSpeedBoosted.t = "string")


(***************************************************************************)
(* Sets.validate.                                                          *)
(***************************************************************************)

\* A problem string: its message, the first name interpolated in it, and the
\* position in set.moves the loop was at when it was pushed (0 outside it).
P(kind, subject, at) == [kind |-> kind, subject |-> subject, at |-> at]

\* const rules = Rules.get(format)
rules == RulesGet(format)

\* const species = Species.get(set.species, format.gen)
species == SpeciesGet(set.species, format.gen)

\* const pokemon = set.name || set.species
pokemon == IF set.name # "" THEN set.name ELSE set.species

\* Resolve without the early return for an unresolved species.
ResolveNoSpeciesReturn ==
  /\ pc = "start"
  /\ IF rules.id = ""
     THEN /\ problems' = <<P("invalidFormat", format.tier, 0)>>
          /\ pc' = "done"
     ELSE IF species.name = ""
     THEN /\ problems' = <<P("invalidSpecies", set.species, 0)>>
          /\ pc' = "tier"
     ELSE /\ problems' = <<>>
          /\ pc' = "tier"
  /\ UNCHANGED <<format, set, i, moveTable>>

\* The early returns of validate and the declaration of problems.
Resolve ==
  /\ pc = "start"
  /\ IF rules.id = ""
     THEN /\ problems' = <<P("invalidFormat", format.tier, 0)>>
          /\ pc' = "done"
     ELSE IF species.name = ""
     THEN /\ problems' = <<P("invalidSpecies", set.species, 0)>>
          /\ pc' = "done"
     ELSE /\ problems' = <<>>
          /\ pc' = "tier"
  /\ UNCHANGED <<format, set, i, moveTable>>

\* The problems of the tier check.
TierProblems ==
  IF species.tier = "Illegal" THEN <<P("illegal", pokemon, 0)>>
  ELSE IF species.tier = "Unreleased" THEN <<P("unreleased", pokemon, 0)>>
  ELSE <<>>

\* The tier check returning the problems as soon as it has found one.
CheckTierReturns ==
  /\ pc = "tier"
  /\ problems' = problems \o TierProblems
  /\ pc' = IF TierProblems # <<>> THEN "done" ELSE "level"
  /\ UNCHANGED <<format, set, i, moveTable>>

CheckTier ==
  /\ pc = "tier"
  /\ problems' = problems \o TierProblems
  /\ pc' = "level"
  /\ UNCHANGED <<format, set, i, moveTable>>

\* The problems of the level check.
LevelProblems ==
  IF isLittleCup(rules)
  THEN (IF species.prevo # "" THEN <<P("notFirstEvo", pokemon, 0)>>
        ELSE IF ~nfe(species) THEN <<P("noEvoFamily", pokemon, 0)>>
        ELSE <<>>)
       \o (IF set.level # 0 /\ set.level > 5
           THEN <<P("lcLevel", pokemon, 0)>> ELSE <<>>)
  ELSE IF set.level # 0 /\ set.level > 100
       THEN <<P("level100", pokemon, 0)>> ELSE <<>>

CheckLevel ==
  /\ pc = "level"
  /\ problems' = problems \o LevelProblems
  /\ pc' = "moves"
  /\ UNCHANGED <<format, set, i, moveTable>>

\* if (set.moves.length) { if (set.moves.length > 4) ...; const moveTable = {}
\* } else { must have at least one move }
CheckMoveCount ==
  /\ pc = "moves"
  /\ IF Len(set.moves) # 0
     THEN /\ problems' = problems \o
                (IF Len(set.moves) > 4
                 THEN <<P("moreThanFour", pokemon, 0)>> ELSE <<>>)
          /\ pc' = "loop"
          /\ i' = 1
     ELSE /\ problems' = problems \o <<P("noMoves", pokemon, 0)>>
          /\ pc' = "gender"
          /\ i' = i
  /\ moveTable' = <<>>
  /\ UNCHANGED <<format, set>>

\* moveTable[id] is set.
InTable(table, id) == \E k \in 1..Len(table) : table[k] = id

\* The clause problem of a resolved move: the first of OHKO, Evasion Moves
\* and Swagger that bans it.
ClauseProblems(move, at) ==
  IF "OHKO" \in rules.clauses /\ move.ohko
  THEN <<P("ohko", move.name, at)>>
  ELSE IF "Evasion Moves" \in rules.clauses /\
          (move.name = "Minimize" \/ move.name = "Double Team")
  THEN <<P("evasionMove", move.name, at)>>
  ELSE IF "Swagger" \in rules.clauses /\ move.name = "Swagger"
  THEN <<P("swagger", move.name, at)>>
  ELSE <<>>

\* MoveProblems with a `continue` after the duplicate problem.
MoveProblemsDupContinue(m, table, at) ==
  LET move == MovesGet(m, format.gen)
  IN  IF move.id = "" THEN <<P("invalidMove", m, at)>>
      ELSE IF InTable(table, move.id) THEN <<P("duplicateMove", pokemon, at)>>
      ELSE ClauseProblems(move, at)

\* The problems one iteration of `for (const m of set.moves)` pushes, with
\* the move table as it stands.
MoveProblems(m, table, at) ==
  LET move == MovesGet(m, format.gen)
  IN  IF move.id = "" THEN <<P("invalidMove", m, at)>>
      ELSE (IF InTable(table, move.id)
            THEN <<P("duplicateMove", pokemon, at)>> ELSE <<>>)
           \o ClauseProblems(move, at)

\* moveTable[move.id] = move: a new key goes last, a known key keeps its place.
TableAfter(m, table) ==
  LET move == MovesGet(m, format.gen)
  IN  IF move.id = "" \/ InTable(table, move.id) THEN table
      ELSE Append(table, move.id)

\* One iteration of the loop over set.moves.
CheckMove ==
  /\ pc = "loop"
  /\ i <= Len(set.moves)
  /\ problems' = problems \o MoveProblems(set.moves[i], moveTable, i)
  /\ moveTable' = TableAfter(set.moves[i], moveTable)
  /\ i' = i + 1
  /\ pc' = IF i = Len(set.moves) THEN "sleeptrap" ELSE "loop"
  /\ UNCHANGED <<format, set>>

\* The problems of the generation 2 sleep trapping check.
SleepTrapProblems(table) ==
  IF format.gen = 2 /\ checkSleepTrap(table)
  THEN <<P("sleepTrap", pokemon, 0)>> ELSE <<>>

CheckSleepTrap ==
  /\ pc = "sleeptrap"
  /\ problems' = problems \o SleepTrapProblems(moveTable)
  /\ pc' = "batonpass"
  /\ UNCHANGED <<format, set, i, moveTable>>

\* The problems of the Baton Pass clause check.
BatonPassProblems(table) ==
  IF /\ "Baton Pass" \in rules.clauses
     /\ InTable(table, "batonpass")
     /\ checkBatonPass(set, format, table)
  THEN <<P("batonPass", pokemon, 0)>> ELSE <<>>

CheckBatonPass ==
  /\ pc = "batonpass"
  /\ problems' = problems \o BatonPassProblems(moveTable)
  /\ pc' = "gender"
  /\ UNCHANGED <<format, set, i, moveTable>>

\* let genderThreshold = species.genderRatio.F * 16, with 4 -> 5 and 8 -> 7.
genderThreshold(s) ==
  LET raw == (s.genderRatio.F[1] * 16) \div s.genderRatio.F[2]
      t == IF raw = 4 THEN 5 ELSE raw
  IN  IF t = 8 THEN 7 ELSE t

\* const expectedGender = (atkDV >= genderThreshold ? 'M' : 'F')
expectedGender(s, ivs) ==
  IF itod(ivs.atk) >= genderThreshold(s) THEN "M" ELSE "F"

\* The problems of the gender check.
GenderProblems ==
  IF set.gender # ""
  THEN (IF set.gender # species.gender
        THEN <<P("wrongGender", pokemon, 0)>> ELSE <<>>)
       \o (IF format.gen = 2 /\ set.gender # expectedGender(species, set.ivs)
           THEN <<P("dvGender", pokemon, 0)>> ELSE <<>>)
  ELSE <<>>

CheckGender ==
  /\ pc = "gender"
  /\ problems' = problems \o GenderProblems
  /\ pc' = "evs"
  /\ UNCHANGED <<format, set, i, moveTable>>

\* The problems of the EV check.
EVProblems ==
  IF format.gen < 3 /\ set.evs.spa # set.evs.spd
  THEN <<P("evMismatch", pokemon, 0)>> ELSE <<>>

CheckEVs ==
  /\ pc = "evs"
  /\ problems' = problems \o EVProblems
  /\ pc' = "ivs"
  /\ UNCHANGED <<format, set, i, moveTable>>

\* let perfect = 0; for (stat in set.ivs) if (set.ivs[stat] >= 31) perfect++
perfect(ivs) == Cardinality({st \in Stats : ivs[st] >= 31})

\* dvs.def === 10 && dvs.spe === 10 && dvs.spa === 10 && dvs.atk % 4 >= 2
expectedShiny(ivs) ==
  /\ itod(ivs.def) = 10
  /\ itod(ivs.spe) = 10
  /\ itod(ivs.spa) = 10
  /\ itod(ivs.atk) % 4 >= 2

\* The problems of the IV check.
IVProblems ==
  IF format.gen >= 6
  THEN IF isLegendary(species, set.shiny) /\ perfect(set.ivs) < 3
       THEN <<P("legendaryIVs", pokemon, 0)>> ELSE <<>>
  ELSE IF format.gen < 3
  THEN (IF set.ivs.spa # set.ivs.spd
        THEN <<P("ivMismatch", pokemon, 0)>> ELSE <<>>)
       \o (IF format.gen = 2 /\ itod(set.ivs.hp) # getHPDV(set.ivs)
           THEN <<P("hpDV", pokemon, 0)>> ELSE <<>>)
       \o (IF format.gen = 2 /\ expectedShiny(set.ivs) # set.shiny
           THEN <<P("shinyDV", pokemon, 0)>> ELSE <<>>)
  ELSE <<>>

CheckIVs ==
  /\ pc = "ivs"
  /\ problems' = problems \o IVProblems
  /\ pc' = "nature"
  /\ UNCHANGED <<format, set, i, moveTable>>

\* The problems of the nature check.
NatureProblems ==
  IF set.nature # ""
  THEN IF NaturesGet(set.nature) # ""
       THEN (IF format.gen < 3
             THEN <<P("natureNotExist", pokemon, 0)>> ELSE <<>>)
       ELSE (IF format.gen >= 3
             THEN <<P("invalidNature", set.nature, 0)>> ELSE <<>>)
  ELSE IF format.gen >= 3
       THEN <<P("natureRequired", pokemon, 0)>> ELSE <<>>

CheckNature ==
  /\ pc = "nature"
  /\ problems' = problems \o NatureProblems
  /\ pc' = "ability"
  /\ UNCHANGED <<format, set, i, moveTable>>

\* The problems of the ability check: the ability is looked up in pkmn.Items.
AbilityProblems ==
  IF format.gen >= 3
  THEN LET ability == ItemsGet(set.ability, format.gen)
       IN  IF ability.id = "" THEN <<P("invalidAbility", set.ability, 0)>>
           ELSE (IF "Evasion Abilities" \in rules.clauses /\
                    (ability.name = "Sand Veil" \/ ability.name = "Snow Cloak")
                 THEN <<P("evasionAbility", ability.name, 0)>> ELSE <<>>)
                \o (IF "Moody" \in rules.clauses /\ ability.name = "Moody"
                    THEN <<P("moody", ability.name, 0)>> ELSE <<>>)
  ELSE IF set.ability # ""
       THEN <<P("abilityNotExist", pokemon, 0)>> ELSE <<>>

CheckAbility ==
  /\ pc = "ability"
  /\ problems' = problems \o AbilityProblems
  /\ pc' = "item"
  /\ UNCHANGED <<format, set, i, moveTable>>

\* The problems of the item check.
ItemProblems ==
  IF format.gen >= 2
  THEN LET item == ItemsGet(set.item, format.gen)
       IN  (IF set.item # "" /\ item.id = ""
            THEN <<P("invalidItem", set.item, 0)>> ELSE <<>>)
           \o (IF item.id # "" /\ item.id = "griseousorb" /\ species.num # 487
               THEN <<P("griseousOrb", item.name, 0)>> ELSE <<>>)
  ELSE IF set.item # ""
       THEN <<P("itemNotExist", pokemon, 0)>> ELSE <<>>

\* The item check and `return problems`.
CheckItem ==
  /\ pc = "item"
  /\ problems' = problems \o ItemProblems
  /\ pc' = "done"
  /\ UNCHANGED <<format, set, i, moveTable>>


(***************************************************************************)
(* The sets and formats validate is called with.                           *)
(***************************************************************************)

\* The move lists of at most n names of S.
SeqsUpTo(S, n) == UNION {[1..k -> S] : k \in 0..n}

Fmt(gen, tier) == [gen |-> gen, tier |-> tier]

\* A set with nothing to report from generation 3 on.
DefaultSet ==
  [species |-> "Pikachu", name |-> "", level |-> 50, gender |-> "",
   shiny |-> FALSE, moves |-> <<"Tackle">>,
   ivs |-> [st \in Stats |-> 31], evs |-> [spa |-> 0, spd |-> 0],
   nature |-> "Jolly", ability |-> "", item |-> ""]

\* Long move lists with repeated, differently spelled and unknown names.
MoveInputs ==
  \E g \in {2, 7}, t \in {"ou", "ag"}, sp \in {"Pikachu", "Missingno"},
     ms \in SeqsUpTo({"Tackle", "tackle", "Fissure", "Foo"}, MaxMoves) :
    /\ format = Fmt(g, t)
    /\ set = [DefaultSet EXCEPT !.moves = ms, !.species = sp]

\* Sleep and trapping moves around generation 2.
SleepTrapInputs ==
  \E g \in {1, 2, 3},
     ms \in SeqsUpTo({"Spore", "Hypnosis", "Sing", "Lovely Kiss",
                      "Sleep Powder", "Mean Look", "Spider Web", "Foo"},
                     MaxCombo) :
    /\ format = Fmt(g, "ou")
    /\ set = [DefaultSet EXCEPT !.moves = ms]

\* Moves the move clauses ban, with and without the clauses.
ClauseInputs ==
  \E t \in {"ou", "ag", "bogus"},
     ms \in SeqsUpTo({"Swagger", "Minimize", "Double Team", "Fissure",
                      "Tackle"}, MaxCombo) :
    /\ format = Fmt(7, t)
    /\ set = [DefaultSet EXCEPT !.moves = ms]

\* Baton Pass with boosting moves, Z-crystals, items and abilities.
BatonInputs ==
  \E it \in {"", "Normalium Z", "Psychium Z", "Salac Berry", "Liechi Berry"},
     ab \in {"", "Speed Boost", "Moxie"},
     ms \in SeqsUpTo({"Baton Pass", "Agility", "Swords Dance", "Recycle",
                      "Celebrate", "Splash", "Hypnosis"}, MaxCombo) :
    /\ format = Fmt(7, "ou")
    /\ set = [DefaultSet EXCEPT !.moves = ms, !.item = it, !.ability = ab]

\* Baton Pass with the listed moves and the species Z-crystal, with and
\* without the clause, in and before the generation of Z-crystals.
BatonListInputs ==
  \E g \in {6, 7}, t \in {"ou", "ag"},
     it \in {"", "Normalium Z", "Eevium Z"},
     ms \in SeqsUpTo({"Baton Pass", "Flame Charge", "Belly Drum", "Splash",
                      "Sing"}, MaxCombo) :
    /\ format = Fmt(g, t)
    /\ set = [DefaultSet EXCEPT !.moves = ms, !.item = it]

\* Declared genders against fixed genders and Atk DVs.
GenderInputs ==
  \E g \in {1, 2, 3, 7},
     sp \in {"Pikachu", "Nidoran-M", "Chansey", "Mewtwo", "Eevee",
             "Growlithe", "Vulpix", "Missingno"},
     gd \in {"", "M", "F", "N"},
     iv \in {2 * d : d \in 0..15} \cup {31} :
    /\ format = Fmt(g, "ou")
    /\ set = [DefaultSet EXCEPT !.species = sp, !.gender = gd, !.ivs.atk = iv]

\* Natures, abilities and items, known and unknown.
FieldInputs ==
  \E g \in {1, 2, 3, 7}, t \in {"ou", "ag"},
     sp \in {"Pikachu", "Giratina", "Missingno"},
     na \in {"", "Jolly", "Foo"},
     ab \in {"", "Static", "Moody", "Sand Veil", "Leftovers", "Foo"},
     it \in {"", "Leftovers", "Griseous Orb", "Foo"} :
    /\ format = Fmt(g, t)
    /\ set = [DefaultSet EXCEPT !.species = sp, !.nature = na,
                                !.ability = ab, !.item = it]

\* Legendaries and their IVs around generation 6.
LegendInputs ==
  \E g \in {5, 6, 7},
     sp \in {"Diancie", "Mewtwo", "Manaphy", "Unown", "Pichu",
             "Pikachu-Rock-Star", "Pikachu"},
     sh \in BOOLEAN,
     ivs \in [Stats -> {30, 31}] :
    /\ format = Fmt(g, "ou")
    /\ set = [DefaultSet EXCEPT !.species = sp, !.shiny = sh, !.ivs = ivs]

\* A set with a problem in every check after the moves.
DirtySet ==
  [DefaultSet EXCEPT !.gender = "N", !.ivs.spa = 20, !.ivs.hp = 0,
                     !.ivs.def = 0, !.ivs.spe = 0, !.shiny = TRUE,
                     !.nature = "Foo", !.ability = "Foo", !.item = "Foo"]

\* Tiers, levels and EVs, alone and with problems in the other checks.
MixedInputs ==
  \E g \in {2, 7}, t \in {"ou", "lc", "bogus"},
     sp \in {"Pikachu", "Pichu", "Tauros", "Mewtwo", "Pichu-Spiky-eared",
             "Floette-Eternal", "Missingno"},
     nm \in {"", "Sparky"},
     lv \in {0, 5, 6, 100, 101},
     ev \in {0, 4},
     ms \in {<<>>, <<"Foo", "Fissure", "Spore", "Mean Look", "Fissure">>},
     base \in {DefaultSet, DirtySet} :
    /\ format = Fmt(g, t)
    /\ set = [base EXCEPT !.species = sp, !.name = nm, !.level = lv,
                          !.evs.spa = ev, !.moves = ms]

\* validate(set, format) is entered.
Init ==
  /\ \/ MoveInputs
     \/ SleepTrapInputs
     \/ ClauseInputs
     \/ BatonInputs
     \/ BatonListInputs
     \/ GenderInputs
     \/ FieldInputs
     \/ LegendInputs
     \/ MixedInputs
  /\ pc = "start"
  /\ i = 0
  /\ moveTable = <<>>
  /\ problems = <<>>

Next ==
  \/ Resolve
  \/ CheckTier
  \/ CheckLevel
  \/ CheckMoveCount
  \/ CheckMove
  \/ CheckSleepTrap
  \/ CheckBatonPass
  \/ CheckGender
  \/ CheckEVs
  \/ CheckIVs
  \/ CheckNature
  \/ CheckAbility
  \/ CheckItem

Spec == Init /\ [][Next]_vars


(***************************************************************************)
(* Properties of validate.                                                 *)
(***************************************************************************)

\* validate has returned.
Done == pc = "done"

\* Both Rules.get and Species.get resolved.
Resolved == rules.id # "" /\ species.name # ""

\* The result holds a problem of that kind.
Has(kind) == \E k \in 1..Len(problems) : problems[k].kind = kind

\* The result holds a problem of that kind pushed at move-list position at.
HasAt(kind, at) ==
  \E k \in 1..Len(problems) : problems[k].kind = kind /\ problems[k].at = at

\* How many problems of that kind the result holds.
Count(kind) == Cardinality({k \in 1..Len(problems) : problems[k].kind = kind})

\* The positions of set.moves whose name resolves in the format's generation.
ResolvedAt == {k \in 1..Len(set.moves) : MovesGet(set.moves[k], format.gen).id # ""}

\* The ids of the resolved moves of the set.
ResolvedIds == {MovesGet(set.moves[k], format.gen).id : k \in ResolvedAt}

\* C1: when the ruleset or the species does not resolve, validate returns
\* exactly one problem, the invalid-format problem if the ruleset is
\* unresolved and else the invalid-species problem, and no later check ever
\* runs or contributes a problem, whatever the set contains.
C1_FailFast ==
  ~Resolved =>
    \/ pc = "start" /\ problems = <<>>
    \/ /\ Done
       /\ Len(problems) = 1
       /\ problems[1].kind =
            IF rules.id = "" THEN "invalidFormat" ELSE "invalidSpecies"
       /\ problems[1].subject =
            IF rules.id = "" THEN format.tier ELSE set.species

\* C1 witness: validate returned for an unresolvable species on a set with no
\* moves and an unknown nature, ability and item.
C1_Witness ==
  /\ Done
  /\ rules.id # ""
  /\ species.name = ""
  /\ set.moves = <<>>
  /\ set.item = "Foo"
  /\ set.ability = "Foo"
  /\ Len(problems) = 1

\* C6: the duplicate-move problems number the resolved entries minus the
\* distinct resolved ids, one at each repeated occurrence; each unresolved
\* entry gets one invalid-move problem and no duplicate problem; a repeated
\* occurrence still gets its OHKO / Evasion Moves / Swagger clause problem.
C6_Duplicates ==
  (Done /\ Resolved /\ set.moves # <<>>) =>
    /\ Count("duplicateMove") =
         Cardinality(ResolvedAt) - Cardinality(ResolvedIds)
    /\ Count("invalidMove") = Len(set.moves) - Cardinality(ResolvedAt)
    /\ \A k \in 1..Len(set.moves) :
         LET id == MovesGet(set.moves[k], format.gen).id
             repeated == \E j \in 1..(k - 1) :
                           MovesGet(set.moves[j], format.gen).id = id
         IN  /\ HasAt("invalidMove", k) <=> id = ""
             /\ HasAt("duplicateMove", k) <=> (id # "" /\ repeated)
             /\ HasAt("ohko", k) <=> (id = "fissure" /\ "OHKO" \in rules.clauses)
             /\ HasAt("evasionMove", k) <=>
                  (id \in {"minimize", "doubleteam"} /\
                   "Evasion Moves" \in rules.clauses)
             /\ HasAt("swagger", k) <=>
                  (id = "swagger" /\ "Swagger" \in rules.clauses)

\* C6 witness: a list with a move repeated under two spellings, an unknown
\* name, and an OHKO move repeated under the OHKO clause.
C6_Witness ==
  /\ Done
  /\ Resolved
  /\ set.moves = <<"Tackle", "tackle", "Foo", "Fissure", "Fissure">>
  /\ Count("duplicateMove") = 2
  /\ Count("ohko") = 2

\* C7: the sleep-trap problem is raised exactly in generation 2 when the
\* resolved moves hold one of Hypnosis, Lovely Kiss, Sing, Sleep Powder, Spore
\* and one of Mean Look, Spider Web, whatever the order, the duplicates and
\* the unresolved entries.
C7_SleepTrap ==
  (Done /\ Resolved) =>
    (Has("sleepTrap") <=>
       /\ format.gen = 2
       /\ ResolvedIds \cap
            {"hypnosis", "lovelykiss", "sing", "sleeppowder", "spore"} # {}
       /\ ResolvedIds \cap {"meanlook", "spiderweb"} # {})

\* C7 witness: a generation 2 set with a trapping move first, an unknown name
\* and a sleep move last gets the problem.
C7_Witness ==
  /\ Done
  /\ format.gen = 2
  /\ set.moves = <<"Spider Web", "Foo", "Sing">>
  /\ Has("sleepTrap")

\* C8: the three-perfect-IVs problem is raised exactly in generation 6 and
\* later when the species is a legendary (primary egg group Undiscovered or
\* name Manaphy; no pre-evolution, no evolutions; not Unown; base species not
\* Pikachu; base species not Diancie or set not shiny) with fewer than three
\* IVs of 31 or more.
C8_LegendaryIVs ==
  (Done /\ Resolved) =>
    (Has("legendaryIVs") <=>
       /\ format.gen >= 6
       /\ species.eggGroups[1] = "Undiscovered" \/ species.name = "Manaphy"
       /\ species.prevo = "" /\ species.evos = <<>>
       /\ species.name # "Unown"
       /\ species.baseSpecies # "Pikachu"
       /\ species.baseSpecies # "Diancie" \/ ~set.shiny
       /\ Cardinality({st \in Stats : set.ivs[st] >= 31}) < 3)

\* C8 witness: a shiny Diancie with two perfect IVs in generation 7 has been
\* validated and has no such problem.
C8_Witness ==
  /\ Done
  /\ format.gen = 7
  /\ set.species = "Diancie"
  /\ set.shiny
  /\ Cardinality({st \in Stats : set.ivs[st] >= 31}) = 2
  /\ ~Has("legendaryIVs")


\* The place of a problem's check in the order of validate: tier, level,
\* moves (count, per move, sleep trap, Baton Pass), gender, EVs, IVs, nature,
\* ability, item.
Rank(kind) ==
  CASE kind \in {"illegal", "unreleased"} -> 1
    [] kind \in {"notFirstEvo", "noEvoFamily", "lcLevel", "level100"} -> 2
    [] kind \in {"moreThanFour", "noMoves"} -> 3
    [] kind \in {"invalidMove", "duplicateMove", "ohko", "evasionMove",
                 "swagger"} -> 4
    [] kind = "sleepTrap" -> 5
    [] kind = "batonPass" -> 6
    [] kind \in {"wrongGender", "dvGender"} -> 7
    [] kind = "evMismatch" -> 8
    [] kind \in {"legendaryIVs", "ivMismatch", "hpDV", "shinyDV"} -> 9
    [] kind \in {"natureNotExist", "invalidNature", "natureRequired"} -> 10
    [] kind \in {"invalidAbility", "evasionAbility", "moody",
                 "abilityNotExist"} -> 11
    [] kind \in {"invalidItem", "griseousOrb", "itemNotExist"} -> 12
    [] OTHER -> 0

\* The problems of the result that the check of that rank pushed, in order.
OfRank(r) == SelectSeq(problems, LAMBDA p : Rank(p.kind) = r)

\* C9: for a set whose format and species resolve, the problems stand in the
\* order of the checks (per-move problems in move-list order), and every check
\* contributes its problems whatever the other checks found: an unresolved or
\* banned move is reported at each position, and the result holds exactly the
\* problems of the tier, level, sleep-trap, Baton Pass, gender, EV, IV,
\* nature, ability and item checks.
C9_CheckOrder ==
  Resolved =>
    /\ \A j, k \in 1..Len(problems) :
         j < k =>
           \/ Rank(problems[j].kind) < Rank(problems[k].kind)
           \/ /\ Rank(problems[j].kind) = Rank(problems[k].kind)
              /\ problems[j].at <= problems[k].at
    /\ Done =>
         /\ OfRank(1) = TierProblems
         /\ OfRank(2) = LevelProblems
         /\ OfRank(3) =
              (IF set.moves = <<>> THEN <<P("noMoves", pokemon, 0)>>
               ELSE IF Len(set.moves) > 4
               THEN <<P("moreThanFour", pokemon, 0)>> ELSE <<>>)
         /\ \A k \in 1..Len(set.moves) :
              /\ k \notin ResolvedAt => HasAt("invalidMove", k)
              /\ (MovesGet(set.moves[k], format.gen).ohko /\
                  "OHKO" \in rules.clauses) => HasAt("ohko", k)
         /\ set.moves # <<>> => OfRank(5) = SleepTrapProblems(moveTable)
         /\ set.moves # <<>> => OfRank(6) = BatonPassProblems(moveTable)
         /\ OfRank(7) = GenderProblems
         /\ OfRank(8) = EVProblems
         /\ OfRank(9) = IVProblems
         /\ OfRank(10) = NatureProblems
         /\ OfRank(11) = AbilityProblems
         /\ OfRank(12) = ItemProblems

\* C9 witness: a set with a problem in the tier, level, move, gender, IV,
\* nature, ability and item checks has been validated.
C9_Witness ==
  /\ Done
  /\ Has("illegal")
  /\ Has("level100")
  /\ Has("moreThanFour")
  /\ Has("invalidMove")
  /\ Has("ohko")
  /\ Has("wrongGender")
  /\ Has("legendaryIVs")
  /\ Has("invalidNature")
  /\ Has("invalidAbility")
  /\ Has("invalidItem")

\* C3: a set that declares a gender gets the wrong-gender problem exactly when
\* the species has a fixed gender that differs from it; for a species with no
\* fixed gender a gender problem is raised exactly in generation 2 when the
\* declared gender differs from the one the Atk DV implies; a set that declares
\* no gender gets no gender problem.
C3_Gender ==
  (Done /\ Resolved) =>
    IF set.gender = "" THEN ~Has("wrongGender") /\ ~Has("dvGender")
    ELSE IF species.gender # ""
    THEN Has("wrongGender") <=> set.gender # species.gender
    ELSE /\ ~Has("wrongGender")
         /\ Has("dvGender") <=>
              (format.gen = 2 /\
               set.gender # expectedGender(species, set.ivs))

\* C4: from generation 3 on a nature problem is raised exactly when the set
\* has no nature or its nature does not resolve; before generation 3 a nature
\* problem is raised exactly when the set has any nature, resolvable or not.
C4_Nature ==
  (Done /\ Resolved) =>
    LET natureProblem ==
          Has("natureNotExist") \/ Has("invalidNature") \/
          Has("natureRequired")
    IN  IF format.gen >= 3
        THEN natureProblem <=> (set.nature = "" \/ NaturesGet(set.nature) = "")
        ELSE natureProblem <=> set.nature # ""

\* C5: from generation 3 on the invalid-ability problem is raised exactly when
\* the set's ability does not resolve as an ability, and a resolved Sand Veil
\* or Snow Cloak (Evasion Abilities clause) or Moody (Moody clause) gets its
\* clause problem; before generation 3 the abilities-do-not-exist problem is
\* raised exactly when the set specifies an ability.
C5_Ability ==
  (Done /\ Resolved) =>
    LET ability == AbilitiesGet(set.ability, format.gen)
    IN  IF format.gen >= 3
        THEN /\ Has("invalidAbility") <=> ability.id = ""
             /\ ("Evasion Abilities" \in rules.clauses /\
                 ability.name \in {"Sand Veil", "Snow Cloak"})
                  => Has("evasionAbility")
             /\ ("Moody" \in rules.clauses /\ ability.name = "Moody")
                  => Has("moody")
        ELSE Has("abilityNotExist") <=> set.ability # ""


\* The resolved moves of the set.
ResolvedMoves == {MoveById(id) : id \in ResolvedIds}

\* The set's item, when it is a Z-crystal of the move's type.
ZMatches(move) ==
  LET item == ItemsGet(set.item, format.gen)
  IN  item.id # "" /\ item.zMove /\ move.type = item.zMoveType

\* An ordinary (move, ability or item) source of a Speed boost.
OrdinarySpeed ==
  \/ \E mv \in ResolvedMoves : mv.id = "flamecharge" \/ mv.boosts.spe > 0
  \/ toID(set.ability) \in
       {"motordrive", "rattled", "speedboost", "steadfast", "weakarmor"}
  \/ ItemsGet(set.item, format.gen).id \in
       {"blazikenite", "eeviumz", "kommoniumz", "salacberry"}

\* An ordinary (move, ability or item) source of a non-Speed boost.
OrdinaryNonSpeed ==
  \/ \E mv \in ResolvedMoves :
       \/ mv.id \in NON_SPEED_BOOST_MOVES
       \/ mv.boosts.atk > 0 \/ mv.boosts.def > 0
       \/ mv.boosts.spa > 0 \/ mv.boosts.spd > 0
  \/ toID(set.ability) \in NON_SPEED_BOOST_ABILITIES
  \/ ItemsGet(set.item, format.gen).id \in NON_SPEED_BOOST_ITEMS

\* The moves whose Z-form, with the set's crystal, boosts Speed.
ZSpeedMoves ==
  {mv \in ResolvedMoves : ZMatches(mv) /\ mv.zMoveBoosts.spe > 0}

\* The moves whose Z-form, with the set's crystal, boosts another stat.
ZNonSpeedMoves ==
  {mv \in ResolvedMoves :
     /\ ZMatches(mv)
     /\ \/ mv.zMoveBoosts.atk > 0 \/ mv.zMoveBoosts.def > 0
        \/ mv.zMoveBoosts.spa > 0 \/ mv.zMoveBoosts.spd > 0}

\* C2: with Baton Pass among the resolved moves under the Baton Pass clause,
\* the Baton Pass problem is raised exactly when the set has a Speed-boost
\* source and a non-Speed-boost source, unless both are Z-moves only and two
\* distinct moves supply them: an ordinary source on either side is banned
\* with any source on the other, and so is one move whose Z-form supplies both.
C2_BatonPass ==
  (Done /\ Resolved /\ "Baton Pass" \in rules.clauses /\
   "batonpass" \in ResolvedIds) =>
    LET speed == OrdinarySpeed \/ ZSpeedMoves # {}
        nonSpeed == OrdinaryNonSpeed \/ ZNonSpeedMoves # {}
    IN  Has("batonPass") <=>
          /\ speed
          /\ nonSpeed
          /\ \/ OrdinarySpeed
             \/ OrdinaryNonSpeed
             \/ ZSpeedMoves \cap ZNonSpeedMoves # {}

\* All the orders of the elements of a sequence without repetitions.
Perms(q) ==
  {p \in [1..Len(q) -> {q[k] : k \in 1..Len(q)}] :
     \A k \in 1..Len(q) : \E j \in 1..Len(q) : p[j] = q[k]}

\* C10: the verdict of checkBatonPass is the same for every order of the
\* moves of the set.
C10_OrderIndependent ==
  pc = "batonpass" =>
    \A q \in Perms(moveTable) :
      checkBatonPass(set, format, q) = checkBatonPass(set, format, moveTable)

====
